---- MODULE Spec2Model ----
(***************************************************************************)
(* symbol-bootstrap: ConfigService (configuration and genesis generation), *)
(* ComposeService (docker-compose topology) and the node start-up script   *)
(* runServerRecover.sh, as state machines.                                  *)
(***************************************************************************)
EXTENDS Integers, Sequences, FiniteSets, TLC

VARIABLES
    \* ---- resolvePorts, applied as a pure function ----
    internalPort,   \* resolvePorts' first argument
    openPort,       \* resolvePorts' second argument (a JavaScript value)
    portPc,         \* "call" before resolvePorts is applied, "returned" after
    portResult,     \* the returned string[]
    \* ---- the container start-up command of a node or broker service ----
    cmd,            \* the command of the service: [script, main, arg]
    lockFiles,      \* lock marker files present in /symbol-workdir
    shPc,           \* position of the container's command
    sawLock,        \* what the script's lock test found in this attempt
    recoveryExit,   \* exit status of catapult.recovery in this attempt, <<>> if not run
    scriptExit,     \* exit status of runServerRecover.sh in this attempt
    procLog,        \* processes started in this attempt, in order
    exitCode,       \* exit status of the container's command, <<>> while running
    restarts,       \* restarts done under the restart policy
    \* ---- ComposeService.run ----
    cParams,        \* this.params: [reset, aws, user]
    cPreset,        \* presetData: [databases, nodes, gateways]
    cPc,            \* position of run()
    cBranch,        \* position of each concurrent branch of the current group
    cUser,          \* const user, once resolved
    services,       \* const services: name -> DockerComposeService
    composeYml,     \* target/docker/docker-compose.yml, <<>> when absent
    dirs,           \* directories and template copies present under the target
    dockerfiles,    \* target/Dockerfile-<service>: name -> content
    localImages,    \* images built by docker build
    taggedImages,   \* references created by docker tag
    registry,       \* references pushed to the remote registry
    cResult,        \* what run() returned, <<>> before
    \* ---- ConfigService.run ----
    reset,          \* this.params.reset of the current run
    presetSource,   \* the preset BootstrapUtils.loadPresetData returns
    presetData,     \* the in-memory preset of the current run, <<>> before it is loaded
    addresses,      \* the in-memory addresses of the current run, <<>> before
    pc,             \* position of run()
    inflight,       \* the concurrent branches not yet completed
    configFolder,   \* whether target/config exists
    addressesYml,   \* generated-addresses/addresses.yml, <<>> when absent
    presetYml,      \* config/preset.yml, <<>> when absent
    txFiles,        \* the transactions directory: file name -> payload
    txWrites,       \* how often each file of the transactions directory was written
    nodeFolders,    \* nodes whose configuration folder is generated
    nemesisFolders, \* nodes that have their copy of the nemesis seed and data
    gatewayFolders, \* gateways whose configuration folder is generated
    nemgenRuns,     \* invocations of NemgenService.run
    nextId,         \* the next key pair Account.generateNewAccount yields
    result,         \* what run() returned or threw, <<>> while it runs
    optedIn,        \* the logged count of opted in transactions, <<>> if none logged
    warned,         \* transaction keys warned about and excluded
    runs            \* runs started so far

portVars == <<internalPort, openPort, portPc, portResult>>
recoverVars ==
    <<cmd, lockFiles, shPc, sawLock, recoveryExit, scriptExit, procLog, exitCode, restarts>>
composeVars ==
    <<cParams, cPreset, cPc, cBranch, cUser, services, composeYml, dirs, dockerfiles,
      localImages, taggedImages, registry, cResult>>
configVars ==
    <<reset, presetSource, presetData, addresses, pc, inflight, configFolder, addressesYml,
      presetYml, txFiles, txWrites, nodeFolders, nemesisFolders, gatewayFolders, nemgenRuns,
      nextId, result, optedIn, warned, runs>>
vars == <<portVars, recoverVars, composeVars, configVars>>
nonPortVars == <<recoverVars, composeVars, configVars>>
nonRecoverVars == <<portVars, composeVars, configVars>>
nonComposeVars == <<portVars, recoverVars, configVars>>
nonConfigVars == <<portVars, recoverVars, composeVars>>

(***************************************************************************)
(* JavaScript values, as far as resolvePorts tells them apart.              *)
(***************************************************************************)
JsUndefined == [t |-> "undefined", b |-> FALSE, n |-> 0, s |-> ""]
JsBool(b) == [t |-> "boolean", b |-> b, n |-> 0, s |-> ""]
JsNum(n) == [t |-> "number", b |-> FALSE, n |-> n, s |-> ""]
JsStr(s) == [t |-> "string", b |-> FALSE, n |-> 0, s |-> s]

\* ToBoolean: undefined, false, 0 and "" are falsy, everything else is truthy.
Truthy(v) ==
    CASE v.t = "undefined" -> FALSE
      [] v.t = "boolean" -> v.b
      [] v.t = "number" -> v.n # 0
      [] v.t = "string" -> v.s # ""

\* ToString, as a template literal `${v}` applies it.
JsToString(v) ==
    CASE v.t = "undefined" -> "undefined"
      [] v.t = "boolean" -> (IF v.b THEN "true" ELSE "false")
      [] v.t = "number" -> ToString(v.n)
      [] v.t = "string" -> v.s

MongoPort == 27017
NodePort == 7900
BrokerPort == 7902
RestPort == 3000

\* A mutation of resolvePorts: the open port is ignored when it is a value.
resolvePortsSamePort(p, v) ==
    IF ~Truthy(v) THEN <<>> ELSE <<ToString(p) \o ":" \o ToString(p)>>

resolvePorts(p, v) ==
    IF ~Truthy(v)
    THEN <<>>
    ELSE IF v = JsBool(TRUE) \/ v = JsStr("true")
         THEN <<ToString(p) \o ":" \o ToString(p)>>
         ELSE <<JsToString(v) \o ":" \o ToString(p)>>

InternalPorts == {MongoPort, NodePort, BrokerPort, RestPort}

OpenPortValues ==
    {JsUndefined, JsBool(FALSE), JsBool(TRUE)}
    \cup {JsStr(s) : s \in {"", "true", "false", "8001", "0"}}
    \cup {JsNum(n) : n \in {0, 1, 3000, 7900, 8001, 8080}}

PortsInit ==
    /\ internalPort \in InternalPorts
    /\ openPort \in OpenPortValues
    /\ portPc = "call"
    /\ portResult = <<>>

PortsIdle ==
    /\ internalPort = 0
    /\ openPort = JsUndefined
    /\ portPc = "idle"
    /\ portResult = <<>>

ResolvePorts ==
    /\ portPc = "call"
    /\ portPc' = "returned"
    /\ portResult' = resolvePorts(internalPort, openPort)
    /\ UNCHANGED <<internalPort, openPort>>
    /\ UNCHANGED nonPortVars

(***************************************************************************)
(* The start-up command of a node service and of its broker, and the       *)
(* script runServerRecover.sh it runs first.                                *)
(***************************************************************************)
RecoverScript == "/symbol-commands/runServerRecover.sh"
StartServerScript == "/symbol-commands/startServer.sh"
StartBrokerScript == "/symbol-commands/startBroker.sh"
RecoveryBinary == "/usr/catapult/bin/catapult.recovery"

\* A mutation of the node command: the two scripts joined by ';'.
NodeCommandSequential(name) ==
    [shell |-> "bash -c",
     first |-> <<"/bin/bash", RecoverScript, name>>,
     op |-> ";",
     second |-> <<"/bin/bash", StartServerScript, name>>]

\* bash -c "/bin/bash runServerRecover.sh <name> && /bin/bash startServer.sh <name>"
NodeCommand(name) ==
    [shell |-> "bash -c",
     first |-> <<"/bin/bash", RecoverScript, name>>,
     op |-> "&&",
     second |-> <<"/bin/bash", StartServerScript, name>>]

\* bash -c "/bin/bash runServerRecover.sh <broker> && /bin/bash startBroker.sh <broker>"
BrokerCommand(name) ==
    [shell |-> "bash -c",
     first |-> <<"/bin/bash", RecoverScript, name>>,
     op |-> "&&",
     second |-> <<"/bin/bash", StartBrokerScript, name>>]

\* restart: 'on-failure:2'
MaxRetries == 2

LockNames == {"broker.lock", "server.lock"}

\* [ -e "broker.lock" ] || [ -e "server.lock" ]
LockPresent(files) == "broker.lock" \in files \/ "server.lock" \in files

\* The shell's list operators: A && B runs B only when A exits 0, A ; B always.
RunsSecond(op, status) == IF op = "&&" THEN status = 0 ELSE TRUE

\* The lock file the main process of a command holds while it runs.
OwnLock(c) == IF c.second[2] = StartBrokerScript THEN "broker.lock" ELSE "server.lock"

ExitCodes == {0, 1}

RecoverInit ==
    /\ cmd \in {NodeCommand("node-0"), BrokerCommand("broker-0")}
    /\ lockFiles \in SUBSET LockNames
    /\ shPc = "created"
    /\ sawLock = "untested"
    /\ recoveryExit = <<>>
    /\ scriptExit = <<>>
    /\ procLog = <<>>
    /\ exitCode = <<>>
    /\ restarts = 0

RecoverIdle ==
    /\ cmd = "none"
    /\ lockFiles = {}
    /\ shPc = "idle"
    /\ sawLock = "untested"
    /\ recoveryExit = <<>>
    /\ scriptExit = <<>>
    /\ procLog = <<>>
    /\ exitCode = <<>>
    /\ restarts = 0

\* docker starts the container: bash -c begins with the first command of the list.
ContainerStart ==
    /\ shPc = "created"
    /\ shPc' = "script"
    /\ procLog' = <<cmd.first[2]>>
    /\ UNCHANGED <<cmd, lockFiles, sawLock, recoveryExit, scriptExit, exitCode, restarts>>
    /\ UNCHANGED nonRecoverVars

\* runServerRecover.sh: the lock test, then exec of the recovery binary or exit 0.
ScriptLockTest ==
    /\ shPc = "script"
    /\ IF LockPresent(lockFiles)
       THEN /\ sawLock' = "present"
            /\ shPc' = "recovery"
            /\ procLog' = Append(procLog, RecoveryBinary)
            /\ UNCHANGED scriptExit
       ELSE /\ sawLock' = "absent"
            /\ shPc' = "scriptExited"
            /\ scriptExit' = <<0>>
            /\ UNCHANGED procLog
    /\ UNCHANGED <<cmd, lockFiles, recoveryExit, exitCode, restarts>>
    /\ UNCHANGED nonRecoverVars

\* catapult.recovery ends. It replaced the script's shell (exec), so its status is
\* the script's status. Which lock files it leaves behind is its own business.
RecoveryFinish ==
    /\ shPc = "recovery"
    /\ \E code \in ExitCodes, left \in SUBSET lockFiles :
        /\ recoveryExit' = <<code>>
        /\ scriptExit' = <<code>>
        /\ lockFiles' = left
    /\ shPc' = "scriptExited"
    /\ UNCHANGED <<cmd, sawLock, procLog, exitCode, restarts>>
    /\ UNCHANGED nonRecoverVars

\* bash -c "first <op> second": the second command of the list, or the end.
CommandList ==
    /\ shPc = "scriptExited"
    /\ IF RunsSecond(cmd.op, scriptExit[1])
       THEN /\ shPc' = "main"
            /\ procLog' = Append(procLog, cmd.second[2])
            /\ UNCHANGED exitCode
       ELSE /\ shPc' = "exited"
            /\ exitCode' = scriptExit
            /\ UNCHANGED procLog
    /\ UNCHANGED <<cmd, lockFiles, sawLock, recoveryExit, scriptExit, restarts>>
    /\ UNCHANGED nonRecoverVars

\* The main process takes its lock file while it runs.
MainTakesLock ==
    /\ shPc = "main"
    /\ OwnLock(cmd) \notin lockFiles
    /\ lockFiles' = lockFiles \cup {OwnLock(cmd)}
    /\ UNCHANGED <<cmd, shPc, sawLock, recoveryExit, scriptExit, procLog, exitCode, restarts>>
    /\ UNCHANGED nonRecoverVars

\* The main process ends: cleanly (its lock removed) or by a crash (its lock left).
MainExit ==
    /\ shPc = "main"
    /\ \E code \in ExitCodes :
        /\ exitCode' = <<code>>
        /\ lockFiles' = IF code = 0 THEN lockFiles \ {OwnLock(cmd)} ELSE lockFiles
    /\ shPc' = "exited"
    /\ UNCHANGED <<cmd, sawLock, recoveryExit, scriptExit, procLog, restarts>>
    /\ UNCHANGED nonRecoverVars

\* restart: 'on-failure:2' runs the whole command again after a failure.
ContainerRestart ==
    /\ shPc = "exited"
    /\ exitCode # <<0>>
    /\ restarts < MaxRetries
    /\ restarts' = restarts + 1
    /\ shPc' = "script"
    /\ procLog' = <<cmd.first[2]>>
    /\ sawLock' = "untested"
    /\ recoveryExit' = <<>>
    /\ scriptExit' = <<>>
    /\ exitCode' = <<>>
    /\ UNCHANGED <<cmd, lockFiles>>
    /\ UNCHANGED nonRecoverVars

\* The other service of the pair mounts the same /symbol-workdir (the broker has the
\* node's volumes) and takes or releases its own lock file there.
SiblingLock ==
    /\ shPc \in {"script", "recovery", "scriptExited", "main", "exited"}
    /\ \E f \in LockNames \ {OwnLock(cmd)} :
        lockFiles' = IF f \in lockFiles THEN lockFiles \ {f} ELSE lockFiles \cup {f}
    /\ UNCHANGED <<cmd, shPc, sawLock, recoveryExit, scriptExit, procLog, exitCode, restarts>>
    /\ UNCHANGED nonRecoverVars

RecoverNext ==
    \/ ContainerStart
    \/ ScriptLockTest
    \/ RecoveryFinish
    \/ CommandList
    \/ MainTakesLock
    \/ MainExit
    \/ ContainerRestart
    \/ SiblingLock

(***************************************************************************)
(* ComposeService.run: the preset's databases, nodes and gateways compiled  *)
(* into the services of docker-compose.yml.                                  *)
(***************************************************************************)
Absent == <<>>
Some(x) == <<x>>

\* BootstrapUtils.workingDir
workingDir == "config"

MongoImage == "mongo"
SymbolServerImage == "symbol-server"
SymbolRestImage == "symbol-rest"

Repository == "nem-repository"
RegistryHost == "172617417348.dkr.ecr.us-east-1.amazonaws.com"
GatewayAddress == "172.20.0.10"
Subnet == "172.20.0.0/24"
DockerFilePath == "target/docker/docker-compose.yml"

\* A host folder is written "../<path>" or "./<path>"; an image folder may carry a
\* mode after a colon. A volume is kept as the parts v.split(':') yields.
Up(path) == [dots |-> "../", path |-> path]
Here(path) == [dots |-> "./", path |-> path]

\* vol(hostFolder, imageFolder) = hostFolder + ':' + imageFolder
vol(hostFolder, imageFolder) == [host |-> hostFolder, image |-> imageFolder]

\* parts[0].replace('../', '').replace('./', 'docker/')
AddSource(host) == IF host.dots = "../" THEN host.path ELSE "docker/" \o host.path

\* `ADD ${...} ${parts[1]}`
AddDirective(v) == "ADD " \o AddSource(v.host) \o " " \o v.image[1]

\* const dockerfileContent = `FROM docker.io/${image}\n\n${volumes.map(...).join('\n')}\n`
DockerfileContent(image, volumes) ==
    [from |-> "docker.io/" \o image,
     adds |-> [i \in 1..Len(volumes) |-> AddDirective(volumes[i])]]

\* join(targetDocker, parts[0]): "./x" lies in the docker folder, "../x" in the target.
VolumeDir(v) ==
    [under |-> IF v.host.dots = "./" THEN "docker" ELSE "target", path |-> v.host.path]

\* const generatedImageName = repository + ':' + serviceName
GeneratedImageName(serviceName) == Repository \o ":" \o serviceName

\* const absoluteImageUrl = `172617417348.dkr.ecr.us-east-1.amazonaws.com/${generatedImageName}`
AbsoluteImageUrl(serviceName) == RegistryHost \o "/" \o GeneratedImageName(serviceName)

\* What resolveImage returns.
ImageInfo(aws, serviceName, image, volumes) ==
    IF aws
    THEN [image |-> GeneratedImageName(serviceName), volumes |-> Absent]
    ELSE [image |-> image, volumes |-> Some(volumes)]

DatabaseVolumes(n) ==
    <<vol(Here("mongo"), <<"/userconfig/", "ro">>),
      vol(Up("data/mongo"), <<"/dbdata", "rw">>),
      vol(Up("state"), <<"/state">>)>>

NodeVolumes(n) ==
    <<vol(Up(workingDir \o "/" \o n.name), <<"/symbol-workdir">>),
      vol(Here("userconfig"), <<"/symbol-commands">>),
      vol(Up("state"), <<"/state">>)>>

GatewayVolumes(n) == <<vol(Up(workingDir \o "/" \o n.name), <<"/symbol-workdir">>)>>

\* bash -c "/bin/bash /userconfig/mongors.sh <name> & mongod --dbpath=/dbdata --bind_ip=<name>"
DatabaseCommand(name) ==
    [shell |-> "bash -c",
     first |-> <<"/bin/bash", "/userconfig/mongors.sh", name>>,
     op |-> "&",
     second |-> <<"mongod", "--dbpath=/dbdata", "--bind_ip=" \o name>>]

\* ash -c "cd /symbol-workdir && npm start --prefix /app/catapult-rest/rest /symbol-workdir/rest.json"
GatewayCommand ==
    [shell |-> "ash -c",
     first |-> <<"cd", "/symbol-workdir">>,
     op |-> "&&",
     second |-> <<"npm", "start", "--prefix", "/app/catapult-rest/rest",
                  "/symbol-workdir/rest.json">>]

DatabaseService(n, info, user) ==
    [container_name |-> Some(n.name), image |-> info.image, user |-> user,
     command |-> DatabaseCommand(n.name), stop_signal |-> "SIGINT",
     ports |-> resolvePorts(MongoPort, n.openPort), volumes |-> info.volumes,
     depends_on |-> Absent, restart |-> Absent, networks |-> Absent]

\* A mutation of the node dependencies: the broker host is pushed before the database.
NodeDependsOnBrokerFirst(n) ==
    (IF n.brokerHost # Absent THEN n.brokerHost ELSE <<>>)
    \o (IF n.databaseHost # Absent THEN n.databaseHost ELSE <<>>)

\* nodeService.depends_on once both pushes are done.
NodeDependsOn(n) ==
    (IF n.databaseHost # Absent THEN n.databaseHost ELSE <<>>)
    \o (IF n.brokerHost # Absent THEN n.brokerHost ELSE <<>>)

NodeService(n, info, user) ==
    [container_name |-> Absent, image |-> info.image, user |-> user,
     command |-> NodeCommand(n.name), stop_signal |-> "SIGINT",
     ports |-> resolvePorts(NodePort, n.openPort), volumes |-> info.volumes,
     depends_on |-> Some(NodeDependsOn(n)), restart |-> Some("on-failure:2"),
     networks |-> Absent]

\* A mutation of the broker service: it does not get the volumes of the node service.
BrokerServiceNoVolumes(n, nodeService, user) ==
    [container_name |-> Absent, image |-> nodeService.image, user |-> user,
     command |-> BrokerCommand(n.brokerHost[1]), stop_signal |-> "SIGINT",
     ports |-> resolvePorts(BrokerPort, n.openBrokerPort), volumes |-> Absent,
     depends_on |-> Absent, restart |-> Some("on-failure:2"), networks |-> Absent]

\* services[n.brokerHost] = {...}
BrokerService(n, nodeService, user) ==
    [container_name |-> Absent, image |-> nodeService.image, user |-> user,
     command |-> BrokerCommand(n.brokerHost[1]), stop_signal |-> "SIGINT",
     ports |-> resolvePorts(BrokerPort, n.openBrokerPort), volumes |-> nodeService.volumes,
     depends_on |-> Absent, restart |-> Some("on-failure:2"), networks |-> Absent]

GatewayService(n, info, user) ==
    [container_name |-> Absent, image |-> info.image, user |-> user,
     command |-> GatewayCommand, stop_signal |-> "SIGINT",
     ports |-> resolvePorts(RestPort, n.openPort), volumes |-> info.volumes,
     depends_on |-> Some(<<n.databaseHost>>), restart |-> Absent,
     networks |-> Some([ipv4_address |-> GatewayAddress])]

\* A mutation of the assignment: the record is replaced by one with this key only.
PutAlone(svcs, key, value) == [k \in {key} |-> value]

\* services[key] = value
Put(svcs, key, value) ==
    [k \in DOMAIN svcs \cup {key} |-> IF k = key THEN value ELSE svcs[k]]

NoServices == [k \in {} |-> Absent]

\* The part of a branch that follows `await resolveImage(...)`: it runs to its end
\* without suspending.
AssignDatabase(svcs, n, aws, user) ==
    Put(svcs, n.name, DatabaseService(n, ImageInfo(aws, n.name, MongoImage, DatabaseVolumes(n)), user))

\* services[n.name] holds the nodeService object, so the later push of the broker
\* host shows in it unless the broker's entry has replaced it.
AssignNode(svcs, n, aws, user) ==
    LET nodeService ==
            NodeService(n, ImageInfo(aws, n.name, SymbolServerImage, NodeVolumes(n)), user)
        withNode == Put(svcs, n.name, nodeService)
    IN  IF n.brokerHost # Absent
        THEN Put(withNode, n.brokerHost[1], BrokerService(n, nodeService, user))
        ELSE withNode

AssignGateway(svcs, n, aws, user) ==
    Put(svcs, n.name, GatewayService(n, ImageInfo(aws, n.name, SymbolRestImage, GatewayVolumes(n)), user))

Groups == <<"databases", "nodes", "gateways">>

Entries(preset, group) ==
    CASE group = "databases" -> preset.databases
      [] group = "nodes" -> preset.nodes
      [] group = "gateways" -> preset.gateways

GroupImage(group) ==
    CASE group = "databases" -> MongoImage
      [] group = "nodes" -> SymbolServerImage
      [] group = "gateways" -> SymbolRestImage

GroupVolumes(group, n) ==
    CASE group = "databases" -> DatabaseVolumes(n)
      [] group = "nodes" -> NodeVolumes(n)
      [] group = "gateways" -> GatewayVolumes(n)

Assign(group, svcs, n, aws, user) ==
    CASE group = "databases" -> AssignDatabase(svcs, n, aws, user)
      [] group = "nodes" -> AssignNode(svcs, n, aws, user)
      [] group = "gateways" -> AssignGateway(svcs, n, aws, user)

\* Without registry push no branch waits for I/O: the branches of a group resume in
\* the order of the list and each runs to its end.
RECURSIVE AssignInOrder(_, _, _, _, _)
AssignInOrder(group, svcs, entries, aws, user) ==
    IF entries = <<>>
    THEN svcs
    ELSE AssignInOrder(group, Assign(group, svcs, Head(entries), aws, user),
                       Tail(entries), aws, user)

NextPc(group) ==
    CASE group = "databases" -> "nodes"
      [] group = "nodes" -> "gateways"
      [] group = "gateways" -> "write"

\* resolveUser(): undefined for a blank user, the docker user of the host for
\* 'current', the given user otherwise.
HostUserGroup == "1000:1000"
resolveUser(user) ==
    IF user = Absent \/ user = Some("")
    THEN Absent
    ELSE IF user = Some("current") THEN Some(HostUserGroup) ELSE user

\* const dockerCompose: DockerCompose = {...}
DockerCompose(svcs) ==
    [version |-> "3",
     networks |-> [default |-> [ipam |-> [config |-> <<[subnet |-> Subnet]>>]]],
     services |-> svcs]

(***************************************************************************)
(* The presets and parameters ComposeService.run is applied to.             *)
(***************************************************************************)
MaxNodes == 2
MaxGateways == 2

DatabaseName == "db-0"
NodeName(i) == "node-" \o ToString(i - 1)
BrokerName(i) == "broker-" \o ToString(i - 1)
GatewayName(i) == "gateway-" \o ToString(i - 1)

\* No database or one, its port not published.
DatabaseLists == {<<>>, <<[name |-> DatabaseName, openPort |-> JsUndefined]>>}

\* The i-th node entry: a database host, a broker host or both; the broker host is a
\* name of its own or "node-0", the name of the first node.
\* The open-port values take one value of each kind over the lists.
NodeChoices(i) ==
    {[name |-> NodeName(i), databaseHost |-> h[1], brokerHost |-> h[2],
      openPort |-> JsBool(i = 1),
      openBrokerPort |-> IF i = 1 THEN JsStr("true") ELSE JsUndefined] :
        h \in {<<Some(DatabaseName), Absent>>, <<Absent, Some(BrokerName(i))>>,
               <<Some(DatabaseName), Some(BrokerName(i))>>, <<Some(DatabaseName), Some("node-0")>>}}

\* The i-th gateway entry: a name of its own; the first gateway may also have
\* "node-0", the name of a node.
GatewayChoices(i) ==
    {[name |-> nm, databaseHost |-> DatabaseName,
      openPort |-> IF i = 1 THEN JsNum(3001) ELSE JsStr("3002")] :
        nm \in {GatewayName(i)} \cup (IF i = 1 THEN {"node-0"} ELSE {})}

GroupChoices(group, i) ==
    CASE group = "nodes" -> NodeChoices(i)
      [] group = "gateways" -> GatewayChoices(i)

RECURSIVE ListsOfLength(_, _)
ListsOfLength(group, k) ==
    IF k = 0
    THEN {<<>>}
    ELSE {Append(lc[1], lc[2]) : lc \in ListsOfLength(group, k - 1) \X GroupChoices(group, k)}

ListsUpTo(group, max) == UNION {ListsOfLength(group, k) : k \in 0..max}

ComposePresets ==
    [databases : DatabaseLists,
     nodes : ListsUpTo("nodes", MaxNodes),
     gateways : ListsUpTo("gateways", MaxGateways)]

\* A topology document left by an earlier run and edited by hand since.
ExistingDocument ==
    [version |-> "3",
     networks |-> [default |-> [ipam |-> [config |-> <<[subnet |-> Subnet]>>]]],
     services |-> Put(NoServices, "hand-edited",
                      GatewayService([name |-> "hand-edited", databaseHost |-> DatabaseName,
                                      openPort |-> JsUndefined],
                                     [image |-> SymbolRestImage, volumes |-> Absent], Absent))]

StateDir == [under |-> "target", path |-> "state"]
DockerDir == [under |-> "docker", path |-> ""]
DockerTemplates == [under |-> "docker", path |-> "mongo"]

ComposeInit ==
    /\ cParams \in {p \in [reset : BOOLEAN, aws : BOOLEAN, user : {Absent, Some("current")}] :
                        p.aws => p.user = Some("current")}
    /\ cPreset \in ComposePresets
    /\ cPc = "start"
    /\ cBranch = <<>>
    /\ cUser = Absent
    /\ services = NoServices
    /\ \/ composeYml = Absent /\ dirs = {} /\ ~cParams.reset
       \/ composeYml = Some(ExistingDocument) /\ dirs = {StateDir, DockerDir, DockerTemplates}
    /\ dockerfiles = NoServices
    /\ localImages = {}
    /\ taggedImages = {}
    /\ registry = {}
    /\ cResult = Absent

ComposeIdle ==
    /\ cParams = [reset |-> FALSE, aws |-> FALSE, user |-> Absent]
    /\ cPreset = [databases |-> <<>>, nodes |-> <<>>, gateways |-> <<>>]
    /\ cPc = "idle"
    /\ cBranch = <<>>
    /\ cUser = Absent
    /\ services = NoServices
    /\ composeYml = Absent
    /\ dirs = {}
    /\ dockerfiles = NoServices
    /\ localImages = {}
    /\ taggedImages = {}
    /\ registry = {}
    /\ cResult = Absent

\* BootstrapUtils.deleteFolder(targetDocker)
DeleteDockerFolder(ds) == {d \in ds : d.under # "docker"}

\* A mutation of run(): the existing document is not looked for.
ComposeStartAlwaysRecomputes ==
    /\ cPc = "start"
    /\ composeYml' = IF cParams.reset THEN Absent ELSE composeYml
    /\ dirs' = IF cParams.reset THEN DeleteDockerFolder(dirs) ELSE dirs
    /\ cPc' = "prepare"
    /\ UNCHANGED <<cParams, cPreset, cBranch, cUser, services, dockerfiles, localImages,
                   taggedImages, registry, cResult>>
    /\ UNCHANGED nonComposeVars

\* run() up to its first await: the reset, then the test for an existing document.
ComposeStart ==
    /\ cPc = "start"
    /\ LET yml == IF cParams.reset THEN Absent ELSE composeYml
           ds == IF cParams.reset THEN DeleteDockerFolder(dirs) ELSE dirs
       IN  /\ composeYml' = yml
           /\ dirs' = ds
           /\ IF yml # Absent
              THEN cPc' = "reused" /\ cResult' = Some(DockerFilePath)
              ELSE cPc' = "prepare" /\ UNCHANGED cResult
    /\ UNCHANGED <<cParams, cPreset, cBranch, cUser, services, dockerfiles, localImages,
                   taggedImages, registry>>
    /\ UNCHANGED nonComposeVars

\* mkdir(state), mkdir(targetDocker), the docker templates, resolveUser().
ComposePrepare ==
    /\ cPc = "prepare"
    /\ dirs' = dirs \cup {StateDir, DockerDir, DockerTemplates}
    /\ cUser' = IF cParams.aws THEN Absent ELSE resolveUser(cParams.user)
    /\ cPc' = "databases"
    /\ UNCHANGED <<cParams, cPreset, cBranch, services, composeYml, dockerfiles, localImages,
                   taggedImages, registry, cResult>>
    /\ UNCHANGED nonComposeVars

\* Promise.all(list.map(async (n) => ...)) without registry push: every branch gets
\* its image at once and adds its services, in the order of the list.
GroupAssign ==
    /\ cPc \in {"databases", "nodes", "gateways"}
    /\ ~cParams.aws
    /\ services' = AssignInOrder(cPc, services, Entries(cPreset, cPc), FALSE, cUser)
    /\ cPc' = NextPc(cPc)
    /\ UNCHANGED <<cParams, cPreset, cBranch, cUser, composeYml, dirs, dockerfiles,
                   localImages, taggedImages, registry, cResult>>
    /\ UNCHANGED nonComposeVars

\* Promise.all(list.map(async (n) => ...)) with registry push: every branch starts
\* writing its Dockerfile and suspends.
GroupFanOut ==
    /\ cPc \in {"databases", "nodes", "gateways"}
    /\ cParams.aws
    /\ cBranch = <<>>
    /\ IF Entries(cPreset, cPc) = <<>>
       THEN cPc' = NextPc(cPc) /\ UNCHANGED cBranch
       ELSE cBranch' = [i \in 1..Len(Entries(cPreset, cPc)) |-> "dockerfile"] /\ UNCHANGED cPc
    /\ UNCHANGED <<cParams, cPreset, cUser, services, composeYml, dirs, dockerfiles,
                   localImages, taggedImages, registry, cResult>>
    /\ UNCHANGED nonComposeVars

\* The group a suspended branch belongs to: the one run() waits for, or waited for
\* when a branch failed.
BranchGroup == IF cPc = "failed" THEN cResult[1].group ELSE cPc

\* writeTextFile(dockerFile, dockerfileContent), then the mkdir of every volume's
\* host folder.
BranchDockerfile(i) ==
    /\ cBranch[i] = "dockerfile"
    /\ LET n == Entries(cPreset, BranchGroup)[i]
           volumes == GroupVolumes(BranchGroup, n)
       IN  /\ dockerfiles' = Put(dockerfiles, n.name,
                                 DockerfileContent(GroupImage(BranchGroup), volumes))
           /\ dirs' = dirs \cup {VolumeDir(volumes[k]) : k \in 1..Len(volumes)}
    /\ cBranch' = [cBranch EXCEPT ![i] = "build"]
    /\ UNCHANGED <<cParams, cPreset, cPc, cUser, services, composeYml, localImages,
                   taggedImages, registry, cResult>>
    /\ UNCHANGED nonComposeVars

\* createImageUsingExec(target, dockerFile, generatedImageName)
BranchBuild(i) ==
    /\ cBranch[i] = "build"
    /\ localImages' =
            localImages \cup {GeneratedImageName(Entries(cPreset, BranchGroup)[i].name)}
    /\ cBranch' = [cBranch EXCEPT ![i] = "tag"]
    /\ UNCHANGED <<cParams, cPreset, cPc, cUser, services, composeYml, dirs, dockerfiles,
                   taggedImages, registry, cResult>>
    /\ UNCHANGED nonComposeVars

\* exec(`docker tag ${generatedImageName} ${absoluteImageUrl}`)
BranchTag(i) ==
    /\ cBranch[i] = "tag"
    /\ taggedImages' =
            taggedImages \cup {AbsoluteImageUrl(Entries(cPreset, BranchGroup)[i].name)}
    /\ cBranch' = [cBranch EXCEPT ![i] = "push"]
    /\ UNCHANGED <<cParams, cPreset, cPc, cUser, services, composeYml, dirs, dockerfiles,
                   localImages, registry, cResult>>
    /\ UNCHANGED nonComposeVars

\* exec(`docker push ${absoluteImageUrl}`) returns; resolveImage returns and the
\* branch adds its services.
BranchPush(i) ==
    /\ cBranch[i] = "push"
    /\ LET n == Entries(cPreset, BranchGroup)[i]
       IN  /\ registry' = registry \cup {AbsoluteImageUrl(n.name)}
           /\ services' = Assign(BranchGroup, services, n, TRUE, cUser)
    /\ cBranch' = [cBranch EXCEPT ![i] = "done"]
    /\ UNCHANGED <<cParams, cPreset, cPc, cUser, composeYml, dirs, dockerfiles,
                   localImages, taggedImages, cResult>>
    /\ UNCHANGED nonComposeVars

\* docker build, tag or push fails: the branch rejects, and with the first rejection
\* Promise.all rejects and run() throws. The other branches are not cancelled.
BranchFail(i) ==
    /\ cBranch[i] \in {"build", "tag", "push"}
    /\ cBranch' = [cBranch EXCEPT ![i] = "failed"]
    /\ IF cPc # "failed"
       THEN /\ cResult' = Some([error |-> cBranch[i], group |-> cPc,
                                service |-> Entries(cPreset, cPc)[i].name])
            /\ cPc' = "failed"
       ELSE UNCHANGED <<cPc, cResult>>
    /\ UNCHANGED <<cParams, cPreset, cUser, services, composeYml, dirs, dockerfiles,
                   localImages, taggedImages, registry>>
    /\ UNCHANGED nonComposeVars

BranchStep ==
    \E i \in DOMAIN cBranch :
        \/ BranchDockerfile(i)
        \/ BranchBuild(i)
        \/ BranchTag(i)
        \/ BranchPush(i)
        \/ BranchFail(i)

\* A mutation of the join: Promise.all resolves with the first branch that is through.
GroupJoinFirstDone ==
    /\ cPc \in {"databases", "nodes", "gateways"}
    /\ cBranch # <<>>
    /\ \E i \in DOMAIN cBranch : cBranch[i] = "done"
    /\ cBranch' = <<>>
    /\ cPc' = NextPc(cPc)
    /\ UNCHANGED <<cParams, cPreset, cUser, services, composeYml, dirs, dockerfiles,
                   localImages, taggedImages, registry, cResult>>
    /\ UNCHANGED nonComposeVars

\* Every branch of the group has added its services: Promise.all resolves.
GroupJoin ==
    /\ cPc \in {"databases", "nodes", "gateways"}
    /\ cBranch # <<>>
    /\ \A i \in DOMAIN cBranch : cBranch[i] = "done"
    /\ cBranch' = <<>>
    /\ cPc' = NextPc(cPc)
    /\ UNCHANGED <<cParams, cPreset, cUser, services, composeYml, dirs, dockerfiles,
                   localImages, taggedImages, registry, cResult>>
    /\ UNCHANGED nonComposeVars

\* BootstrapUtils.writeYaml(dockerFile, dockerCompose); return dockerFile
ComposeWrite ==
    /\ cPc = "write"
    /\ composeYml' = Some(DockerCompose(services))
    /\ cResult' = Some(DockerFilePath)
    /\ cPc' = "done"
    /\ UNCHANGED <<cParams, cPreset, cBranch, cUser, services, dirs, dockerfiles,
                   localImages, taggedImages, registry>>
    /\ UNCHANGED nonComposeVars

ComposeNext ==
    \/ ComposeStart
    \/ ComposePrepare
    \/ GroupAssign
    \/ GroupFanOut
    \/ BranchStep
    \/ GroupJoin
    \/ ComposeWrite

(***************************************************************************)
(* ConfigService.run: identities, token distributions, genesis              *)
(* transactions and the opt-in adjustment.                                   *)
(***************************************************************************)
MaxSupply == 5
MaxAccounts == 2
MaxExplicit == 2
MaxOptIn == 2
MaxBatch == 3
MaxBody == 2
MaxRuns == 2

RECURSIVE Sum(_)
\* amounts.reduce((a, b) => a + b, 0)
Sum(amounts) == IF amounts = <<>> THEN 0 ELSE Head(amounts) + Sum(Tail(amounts))

Amounts(distribution) == [i \in 1..Len(distribution) |-> distribution[i].amount]

\* generateAddresses(networkType, size): size fresh accounts, from key pair `first` on.
\* A key pair stands for its private key, its public key and its address.
generateAddresses(first, size) == [i \in 1..size |-> first + i - 1]

\* generateNodeAccounts: the signing and vrf accounts of every node are created, in
\* the order of the list, before any certificate is awaited. A node is named as
\* its preset names it.
NodeAccounts(first, count) ==
    [i \in 1..count |->
        [signing |-> first + 2 * (i - 1), vrf |-> first + 2 * (i - 1) + 1,
         ssl |-> NodeName(i), name |-> NodeName(i)]]

\* A mutation of the even split: the remainder of the division is dropped.
EvenSplitNoRemainder(m, accounts, nodes) ==
    LET totalAccounts == m.accounts + Len(nodes)
        amountPerAccount == IF totalAccounts = 0 THEN 0 ELSE m.supply \div totalAccounts
    IN  [i \in 1..Len(accounts) |-> [address |-> accounts[i], amount |-> amountPerAccount]]
        \o [i \in 1..Len(nodes) |-> [address |-> nodes[i].signing, amount |-> amountPerAccount]]

\* The currencyDistributions of a mosaic that has none: Math.floor(supply /
\* totalAccounts) for every generated account and every node, the rest of the supply
\* added to the first entry. With no entry the quotient (Infinity or NaN) is unused.
EvenSplit(m, accounts, nodes) ==
    LET totalAccounts == m.accounts + Len(nodes)
        amountPerAccount == IF totalAccounts = 0 THEN 0 ELSE m.supply \div totalAccounts
        entries ==
            [i \in 1..Len(accounts) |->
                [address |-> accounts[i], amount |-> amountPerAccount]]
            \o [i \in 1..Len(nodes) |->
                [address |-> nodes[i].signing, amount |-> amountPerAccount]]
    IN  IF Len(entries) > 0
        THEN [entries EXCEPT ![1].amount = @ + (m.supply - totalAccounts * amountPerAccount)]
        ELSE entries

\* A mutation of the mosaic loop: an explicit distribution is redistributed as well.
DistributionOfAlwaysSplit(m, accounts, nodes) == EvenSplit(m, accounts, nodes)

\* if (!m.currencyDistributions) { ... }: an explicit distribution is kept as it is.
DistributionOf(m, accounts, nodes) ==
    IF m.currencyDistributions = Absent
    THEN EvenSplit(m, accounts, nodes)
    ELSE m.currencyDistributions[1]

\* The mosaic loop: each mosaic gets its distribution and is validated; the first
\* mosaic whose amounts do not add up to its supply throws, the later ones are left
\* as they were. Yields the mosaics and the index of the mosaic that threw, or 0.
RECURSIVE MosaicLoop(_, _, _, _)
MosaicLoop(mosaics, accounts, nodes, i) ==
    IF i > Len(mosaics)
    THEN [mosaics |-> mosaics, threw |-> 0]
    ELSE LET distribution == DistributionOf(mosaics[i], accounts[i], nodes)
             done == [mosaics EXCEPT ![i].currencyDistributions = Some(distribution)]
         IN  IF mosaics[i].supply # Sum(Amounts(distribution))
             THEN [mosaics |-> done, threw |-> i]
             ELSE MosaicLoop(done, accounts, nodes, i + 1)

\* Key pairs handed out to the mosaics: m.accounts for each, in the order of the list.
RECURSIVE MosaicAccounts(_, _)
MosaicAccounts(mosaics, first) ==
    IF mosaics = <<>>
    THEN <<>>
    ELSE <<generateAddresses(first, Head(mosaics).accounts)>>
         \o MosaicAccounts(Tail(mosaics), first + Head(mosaics).accounts)

\* Transaction.createTransactionHash(payload, generationHash): the hash covers the
\* signed body and the generation hash, not every byte of the payload.
createTransactionHash(payload, seed) == <<payload.body, seed>>

\* A mutation of the duplicate test: the hash of an accepted transaction is not kept.
RECURSIVE OptInTransactionsForgetful(_, _, _, _)
OptInTransactionsForgetful(batch, seed, i, transactionHashes) ==
    IF i > Len(batch)
    THEN {}
    ELSE {i} \cup OptInTransactionsForgetful(batch, seed, i + 1, transactionHashes)

\* Object.entries(transactions).map(...): an entry whose hash is already in
\* transactionHashes yields undefined, any other entry pushes its hash and is
\* stored. Yields the indexes of the entries that are stored.
RECURSIVE OptInTransactions(_, _, _, _)
OptInTransactions(batch, seed, i, transactionHashes) ==
    IF i > Len(batch)
    THEN {}
    ELSE LET transactionHash == createTransactionHash(batch[i].payload, seed)
         IN  IF \E k \in 1..Len(transactionHashes) : transactionHashes[k] = transactionHash
             THEN OptInTransactions(batch, seed, i + 1, transactionHashes)
             ELSE {i} \cup OptInTransactions(batch, seed, i + 1,
                                              Append(transactionHashes, transactionHash))

\* `vrf_${node.name}`
VrfFileName(name) == "vrf_" \o name

\* The payload createVrfTransaction signs for a node.
VrfPayload(node, seed) == [body |-> <<"vrf", node.vrf, node.signing>>, pad |-> 0]

Thrown(message) == [error |-> message]

InvalidSupply(supply, supplied) ==
    Thrown("Invalid nemgen total supplied value, expected " \o ToString(supply)
           \o " but total is " \o ToString(supplied))

NglTooLow(originalNglAccountBalance, currentBalance) ==
    Thrown("NGL account didn't have enough balance (" \o ToString(originalNglAccountBalance)
           \o ") to paid all the supplied optedin namespaces and accounts of "
           \o ToString(currentBalance))

\* MosaicId.createFromNonce(MosaicNonce.createFromNumber(nonce), ownerAddress)
MosaicIdOf(nonce, ownerAddress) == [nonce |-> nonce, owner |-> ownerAddress]

\* generateRandomConfiguration after the node accounts are there: gateways, nemesis
\* signer, mosaic accounts and distributions, nemesisSignerPublicKey. `id` is the next
\* fresh key pair.
RandomConfiguration(p, a, nodes, id) ==
    LET gateways == generateAddresses(id, p.gateways)
        signer == id + p.gateways
        a1 == [a EXCEPT !.nodes = Some(nodes), !.gateways = Some(gateways)]
    IN  IF ~p.hasNemesis
        THEN [presetData |-> p, addresses |-> a1, nextId |-> signer, threw |-> Absent]
        ELSE
            LET a2 == [a1 EXCEPT !.nemesisSigner = Some(signer)]
                p1 == IF p.nemesisSignerPrivateKey = Absent
                      THEN [p EXCEPT !.nemesisSignerPrivateKey = Some(signer)]
                      ELSE p
                p2 == IF p1.nemesisSignerPublicKey = Absent
                      THEN [p1 EXCEPT !.nemesisSignerPublicKey = Some(signer)]
                      ELSE p1
            IN  IF p.mosaics = Absent
                THEN [presetData |-> p2, addresses |-> a2, nextId |-> signer + 1,
                      threw |-> Absent]
                ELSE
                    LET accounts == MosaicAccounts(p.mosaics[1], signer + 1)
                        loop == MosaicLoop(p.mosaics[1], accounts, nodes, 1)
                        after == signer + 1 + Sum([i \in 1..Len(p.mosaics[1]) |-> p.mosaics[1][i].accounts])
                    IN  IF loop.threw > 0
                        THEN [presetData |-> [p1 EXCEPT !.mosaics = Some(loop.mosaics)],
                              addresses |-> a2, nextId |-> after,
                              threw |->
                                Some(InvalidSupply(
                                    loop.mosaics[loop.threw].supply,
                                    Sum(Amounts(loop.mosaics[loop.threw].currencyDistributions[1]))))]
                        ELSE [presetData |-> [p2 EXCEPT !.mosaics = Some(loop.mosaics)],
                              addresses |-> [a2 EXCEPT !.mosaics = Some(accounts)],
                              nextId |-> after, threw |-> Absent]

completePresetDataWithRandomConfiguration(p, a) ==
    LET p1 == [p EXCEPT !.networkIdentifier = Some("public-test"),
                        !.networkName = Some("publicTest"),
                        !.nemesisGenerationHashSeed =
                            IF @ = Absent THEN Some(a.nemesisGenerationHashSeed) ELSE @]
        ownerAddress == p1.nemesisSignerPublicKey[1]
        p2 == IF p1.currencyMosaicId = Absent
              THEN [p1 EXCEPT !.currencyMosaicId = Some(MosaicIdOf(0, ownerAddress))]
              ELSE p1
    IN  IF p2.harvestingMosaicId # Absent
        THEN [presetData |-> p2, threw |-> Absent]
        ELSE IF ~p2.hasNemesis
        THEN [presetData |-> p2, threw |-> Some(Thrown("nemesis must be defined!"))]
        ELSE IF p2.mosaics # Absent /\ Len(p2.mosaics[1]) > 1
        THEN [presetData |-> [p2 EXCEPT !.harvestingMosaicId = Some(MosaicIdOf(1, ownerAddress))],
              threw |-> Absent]
        ELSE [presetData |-> [p2 EXCEPT !.harvestingMosaicId = p2.currencyMosaicId],
              threw |-> Absent]

\* presetData.nemesis.mosaics && (presetData.nemesis.transactions || presetData.nemesis.balances)
OptInMode(p) == p.mosaics # Absent /\ (p.transactions # Absent \/ p.balances # Absent)

\* A mutation of the opt-in adjustment: the opted in total is not taken from the
\* first entry of the distribution.
OptInBalancesNoDebit(p) ==
    IF p.mosaics[1] = <<>>
    THEN [presetData |-> p, threw |-> Some(Thrown("TypeError: Cannot read property 'currencyDistributions' of undefined"))]
    ELSE IF p.mosaics[1][1].currencyDistributions[1] = <<>>
    THEN [presetData |-> p, threw |-> Some(Thrown("TypeError: Cannot read property 'amount' of undefined"))]
    ELSE
        LET currencyMosaic == p.mosaics[1][1]
            balances == IF p.balances = Absent THEN <<>> ELSE p.balances[1]
            pushed == currencyMosaic.currencyDistributions[1] \o balances
        IN  [presetData |-> [p EXCEPT !.mosaics[1][1].currencyDistributions = Some(pushed)],
             threw |-> IF pushed[1].amount < 1
                       THEN Some(NglTooLow(pushed[1].amount, Sum(Amounts(pushed))))
                       ELSE IF Sum(Amounts(pushed)) # currencyMosaic.supply
                       THEN Some(Thrown("Current supplied balance of " \o ToString(Sum(Amounts(pushed)))
                                        \o " is different from expected supply of "
                                        \o ToString(currencyMosaic.supply)))
                       ELSE Absent]

\* The opt-in adjustment of the currency mosaic: every balance is appended to the
\* distribution, their total is taken from its first entry, and the result is
\* validated. The preset keeps the changes made before a throw.
OptInBalances(p) ==
    IF p.mosaics[1] = <<>>
    THEN [presetData |-> p, threw |-> Some(Thrown("TypeError: Cannot read property 'currencyDistributions' of undefined"))]
    ELSE IF p.mosaics[1][1].currencyDistributions[1] = <<>>
    THEN [presetData |-> p, threw |-> Some(Thrown("TypeError: Cannot read property 'amount' of undefined"))]
    ELSE
        LET currencyMosaic == p.mosaics[1][1]
            originalNglAccountBalance == currencyMosaic.currencyDistributions[1][1].amount
            balances == IF p.balances = Absent THEN <<>> ELSE p.balances[1]
            totalOptedInBalance == Sum(Amounts(balances))
            pushed == currencyMosaic.currencyDistributions[1] \o balances
            adjusted == [pushed EXCEPT ![1].amount = @ - totalOptedInBalance]
            currentBalance == Sum(Amounts(adjusted))
        IN  [presetData |-> [p EXCEPT !.mosaics[1][1].currencyDistributions = Some(adjusted)],
             threw |-> IF adjusted[1].amount < 1
                       THEN Some(NglTooLow(originalNglAccountBalance, currentBalance))
                       ELSE IF currentBalance # currencyMosaic.supply
                       THEN Some(Thrown("Current supplied balance of " \o ToString(currentBalance)
                                        \o " is different from expected supply of "
                                        \o ToString(currencyMosaic.supply)))
                       ELSE Absent]

(***************************************************************************)
(* The presets a run is started with.                                        *)
(***************************************************************************)
Mosaic(i, supply, accounts, distribution) ==
    [name |-> IF i = 1 THEN "currency" ELSE "harvest", supply |-> supply, accounts |-> accounts,
     currencyDistributions |-> distribution]

\* Distributions a preset spells out: up to MaxExplicit entries of small amounts,
\* for addresses of its own.
RECURSIVE ExplicitOfLength(_)
ExplicitOfLength(k) ==
    IF k = 0
    THEN {<<>>}
    ELSE {Append(d, [address |-> 800 + k, amount |-> amount]) :
            d \in ExplicitOfLength(k - 1), amount \in 1..2}

CurrencyMosaics ==
    {Mosaic(1, supply, accounts, Absent) : supply \in 0..MaxSupply, accounts \in 0..MaxAccounts}
    \cup {Mosaic(1, supply, 1, Some(d)) : supply \in 0..MaxSupply,
            d \in UNION {ExplicitOfLength(k) : k \in 0..MaxExplicit}}

HarvestMosaics ==
    {Mosaic(2, 3, 1, Absent),
     Mosaic(2, 2, 0, Some(<<[address |-> 811, amount |-> 1], [address |-> 812, amount |-> 1]>>)),
     Mosaic(2, 2, 0, Some(<<[address |-> 811, amount |-> 1]>>))}

\* The opt-in balances of a preset: up to two addresses, in the order of the record.
RECURSIVE BalancesOfLength(_)
BalancesOfLength(k) ==
    IF k = 0
    THEN {<<>>}
    ELSE {Append(b, [address |-> 900 + k, amount |-> amount]) :
            b \in BalancesOfLength(k - 1), amount \in 1..MaxOptIn}

Payloads == [body : 1..MaxBody, pad : 0..1]

TransactionKey(i) == "tx-" \o ToString(i)

\* The opt-in transactions of a preset: up to MaxBatch payloads under distinct keys,
\* in the order of the record.
RECURSIVE BatchesOfLength(_)
BatchesOfLength(k) ==
    IF k = 0
    THEN {<<>>}
    ELSE {Append(b, [key |-> TransactionKey(k), payload |-> payload]) :
            b \in BatchesOfLength(k - 1), payload \in Payloads}

FixedBatch ==
    <<[key |-> TransactionKey(1), payload |-> [body |-> 1, pad |-> 0]],
      [key |-> TransactionKey(2), payload |-> [body |-> 1, pad |-> 1]]>>

\* A preset with a nemesis section: every generated value is still to be filled in.
NemesisPreset(nodes, mosaics, balances, transactions) ==
    [nodes |-> nodes, gateways |-> IF nodes = 0 THEN 0 ELSE 1, hasNemesis |-> TRUE,
     nemesisSignerPrivateKey |-> Absent, mosaics |-> mosaics, balances |-> balances,
     transactions |-> transactions, nemesisGenerationHashSeed |-> Absent,
     nemesisSignerPublicKey |-> Absent, currencyMosaicId |-> Absent,
     harvestingMosaicId |-> Absent, networkIdentifier |-> Absent, networkName |-> Absent]

\* A preset of an existing network: no nemesis section, the seed is copied.
SeedPreset(nodes, harvestingMosaicId) ==
    [nodes |-> nodes, gateways |-> IF nodes = 0 THEN 0 ELSE 1, hasNemesis |-> FALSE,
     nemesisSignerPrivateKey |-> Absent, mosaics |-> Absent, balances |-> Absent,
     transactions |-> Absent, nemesisGenerationHashSeed |-> Some(700),
     nemesisSignerPublicKey |-> Some(701), currencyMosaicId |-> Some(MosaicIdOf(0, 701)),
     harvestingMosaicId |-> harvestingMosaicId, networkIdentifier |-> Absent,
     networkName |-> Absent]

\* The presets run() is started with: presets that vary the mosaics, presets that
\* vary the opt-in balances, presets that vary the opt-in transactions, and presets
\* without a nemesis section.
ConfigPresets ==
    {NemesisPreset(nodes, mosaics, Absent, Absent) :
        nodes \in 0..MaxNodes,
        mosaics \in {Absent}
                    \cup {Some(<<c>>) : c \in CurrencyMosaics}
                    \cup {Some(<<c, h>>) : c \in CurrencyMosaics, h \in HarvestMosaics}}
    \cup
    {NemesisPreset(nodes, Some(mosaics), balances, transactions) :
        nodes \in 0..MaxNodes,
        mosaics \in {<<>>} \cup {<<Mosaic(1, supply, accounts, Absent)>> :
                        supply \in 0..MaxSupply, accounts \in 0..1}
                    \cup {<<Mosaic(1, 3, 0, Some(d))>> :
                            d \in {<<>>, <<[address |-> 801, amount |-> 3]>>}},
        balances \in {Some(b) : b \in UNION {BalancesOfLength(k) : k \in 0..2}},
        transactions \in {Absent, Some(FixedBatch)}}
    \cup
    {NemesisPreset(1, Some(<<Mosaic(1, 4, 1, Absent)>>), balances, Some(batch)) :
        balances \in {Absent, Some(<<[address |-> 901, amount |-> 1]>>)},
        batch \in UNION {BatchesOfLength(k) : k \in 0..MaxBatch}}
    \cup
    {SeedPreset(nodes, harvestingMosaicId) :
        nodes \in 0..MaxNodes, harvestingMosaicId \in {Absent, Some(MosaicIdOf(1, 701))}}

NoFiles == [name \in {} |-> 0]

ConfigInit ==
    /\ presetSource \in ConfigPresets
    /\ reset = FALSE
    /\ presetData = Absent
    /\ addresses = Absent
    /\ pc = "idle"
    /\ inflight = {}
    /\ configFolder = FALSE
    /\ addressesYml = Absent
    /\ presetYml = Absent
    /\ txFiles = NoFiles
    /\ txWrites = NoFiles
    /\ nodeFolders = {}
    /\ nemesisFolders = {}
    /\ gatewayFolders = {}
    /\ nemgenRuns = 0
    /\ nextId = 1
    /\ result = Absent
    /\ optedIn = Absent
    /\ warned = {}
    /\ runs = 0

ConfigIdle ==
    /\ presetSource = SeedPreset(0, Absent)
    /\ reset = FALSE
    /\ presetData = Absent
    /\ addresses = Absent
    /\ pc = "idle"
    /\ inflight = {}
    /\ configFolder = FALSE
    /\ addressesYml = Absent
    /\ presetYml = Absent
    /\ txFiles = NoFiles
    /\ txWrites = NoFiles
    /\ nodeFolders = {}
    /\ nemesisFolders = {}
    /\ gatewayFolders = {}
    /\ nemgenRuns = 0
    /\ nextId = 1
    /\ result = Absent
    /\ optedIn = Absent
    /\ warned = {}
    /\ runs = 0

(***************************************************************************)
(* run()                                                                     *)
(***************************************************************************)
Store(files, name, payload) ==
    [n \in DOMAIN files \cup {name} |-> IF n = name THEN payload ELSE files[n]]

Count(writes, name) ==
    [n \in DOMAIN writes \cup {name} |->
        IF n = name THEN (IF n \in DOMAIN writes THEN writes[n] ELSE 0) + 1 ELSE writes[n]]

\* BootstrapUtils.loadExistingPresetData and loadExistingAddresses read back what
\* writeYaml stored.
loadExistingPresetData(file) == file[1]
loadExistingAddresses(file) == file[1]

\* A mutation of the start of run(): the existing configuration is not looked at.
ConfigStartAlwaysGenerates ==
    /\ pc \in {"idle", "done", "reused", "failed"}
    /\ runs < MaxRuns
    /\ runs' = runs + 1
    /\ \E r \in BOOLEAN :
        /\ reset' = r
        /\ optedIn' = Absent
        /\ warned' = {}
        /\ inflight' = {}
        /\ configFolder' = (configFolder /\ ~r)
        /\ addressesYml' = IF r THEN Absent ELSE addressesYml
        /\ presetYml' = IF r THEN Absent ELSE presetYml
        /\ txFiles' = IF r THEN NoFiles ELSE txFiles
        /\ txWrites' = IF r THEN NoFiles ELSE txWrites
        /\ nodeFolders' = IF r THEN {} ELSE nodeFolders
        /\ nemesisFolders' = IF r THEN {} ELSE nemesisFolders
        /\ gatewayFolders' = IF r THEN {} ELSE gatewayFolders
        /\ presetData' = Some(presetSource)
        /\ addresses' = Absent
        /\ result' = Absent
        /\ pc' = "mkdir"
    /\ UNCHANGED <<presetSource, nemgenRuns, nextId>>
    /\ UNCHANGED nonConfigVars

\* run() up to its first await: with reset the config folder is deleted; an existing
\* config folder makes run() return what is stored in it; otherwise the preset is
\* loaded and the generated-addresses folder is about to be made.
ConfigStart ==
    /\ pc \in {"idle", "done", "reused", "failed"}
    /\ runs < MaxRuns
    /\ runs' = runs + 1
    /\ \E r \in BOOLEAN :
        /\ reset' = r
        /\ optedIn' = Absent
        /\ warned' = {}
        /\ inflight' = {}
        /\ configFolder' = (configFolder /\ ~r)
        /\ addressesYml' = IF r THEN Absent ELSE addressesYml
        /\ presetYml' = IF r THEN Absent ELSE presetYml
        /\ txFiles' = IF r THEN NoFiles ELSE txFiles
        /\ txWrites' = IF r THEN NoFiles ELSE txWrites
        /\ nodeFolders' = IF r THEN {} ELSE nodeFolders
        /\ nemesisFolders' = IF r THEN {} ELSE nemesisFolders
        /\ gatewayFolders' = IF r THEN {} ELSE gatewayFolders
        /\ IF configFolder /\ ~r
           THEN /\ presetData' = Absent
                /\ addresses' = Absent
                /\ IF presetYml = Absent \/ addressesYml = Absent
                   THEN /\ result' = Some(Thrown("ENOENT: no such file or directory"))
                        /\ pc' = "failed"
                   ELSE /\ result' = Some([presetData |-> loadExistingPresetData(presetYml),
                                           addresses |-> loadExistingAddresses(addressesYml)])
                        /\ pc' = "reused"
           ELSE /\ presetData' = Some(presetSource)
                /\ addresses' = Absent
                /\ result' = Absent
                /\ pc' = "mkdir"
    /\ UNCHANGED <<presetSource, nemgenRuns, nextId>>
    /\ UNCHANGED nonConfigVars

\* The generated-addresses folder is made (it lies in the config folder), then
\* generateRandomConfiguration runs up to the certificates of the nodes: the seed
\* and the signing and vrf key pairs of every node are generated.
ConfigMkdir ==
    /\ pc = "mkdir"
    /\ configFolder' = TRUE
    /\ LET p == presetData[1]
           seed == IF p.nemesisGenerationHashSeed = Absent
                   THEN nextId
                   ELSE p.nemesisGenerationHashSeed[1]
           first == IF p.nemesisGenerationHashSeed = Absent THEN nextId + 1 ELSE nextId
       IN  /\ addresses' = Some([networkType |-> "testnet", nemesisGenerationHashSeed |-> seed,
                                 nodes |-> Absent, gateways |-> Absent,
                                 nemesisSigner |-> Absent, mosaics |-> Absent])
           /\ nextId' = first + 2 * p.nodes
           /\ inflight' = {<<"certificate", i>> : i \in 1..p.nodes}
    /\ pc' = "nodeAccounts"
    /\ UNCHANGED <<reset, presetSource, presetData, addressesYml, presetYml, txFiles, txWrites,
                   nodeFolders, nemesisFolders, gatewayFolders, nemgenRuns, result, optedIn,
                   warned, runs>>
    /\ UNCHANGED nonConfigVars

\* A branch of a fan-out completes. What it leaves on disk depends on its kind.
BranchDone(kind, at) ==
    /\ pc = at
    /\ \E b \in inflight :
        /\ b[1] = kind
        /\ inflight' = inflight \ {b}
        /\ nodeFolders' = IF kind = "node" THEN nodeFolders \cup {b[2]} ELSE nodeFolders
        /\ nemesisFolders' = IF kind = "copy" THEN nemesisFolders \cup {b[2]} ELSE nemesisFolders
        /\ gatewayFolders' = IF kind = "gateway" THEN gatewayFolders \cup {b[2]} ELSE gatewayFolders
        /\ LET name == IF kind = "vrf"
                       THEN VrfFileName(addresses[1].nodes[1][b[2]].name)
                       ELSE IF kind = "transaction"
                       THEN presetData[1].transactions[1][b[2]].key
                       ELSE ""
               payload == IF kind = "vrf"
                          THEN VrfPayload(addresses[1].nodes[1][b[2]],
                                          presetData[1].nemesisGenerationHashSeed[1])
                          ELSE IF kind = "transaction"
                          THEN presetData[1].transactions[1][b[2]].payload
                          ELSE [body |-> 0, pad |-> 0]
           IN  IF kind \in {"vrf", "transaction"}
               THEN /\ txFiles' = Store(txFiles, name, payload)
                    /\ txWrites' = Count(txWrites, name)
               ELSE UNCHANGED <<txFiles, txWrites>>
    /\ UNCHANGED <<reset, presetSource, presetData, addresses, pc, configFolder, addressesYml,
                   presetYml, nemgenRuns, nextId, result, optedIn, warned, runs>>
    /\ UNCHANGED nonConfigVars

\* CertificateService.run of one node returns.
CertificateDone == BranchDone("certificate", "nodeAccounts")

\* generateNodeConfiguration of one node is through.
NodeConfigurationDone == BranchDone("node", "generateNodes")

\* storeTransaction of one vrf transaction has written its file.
VrfStored == BranchDone("vrf", "vrf")

\* storeTransaction of one opt-in transaction has written its file.
TransactionStored == BranchDone("transaction", "optinTx")

\* The seed and the data of the nemesis are copied to one node.
NemesisCopied == BranchDone("copy", "copyNemesis")

\* The configuration of one gateway is generated.
GatewayDone == BranchDone("gateway", "gateways")

Fail(error) ==
    /\ result' = Some(error)
    /\ pc' = "failed"

\* A mutation of generateRandomConfiguration: the certificates are not awaited.
GenerateRandomConfigurationNoAwait ==
    /\ pc = "nodeAccounts"
    /\ LET count == presetData[1].nodes
           nodes == NodeAccounts(nextId - 2 * count, count)
           random == RandomConfiguration(presetData[1], addresses[1], nodes, nextId)
           complete == completePresetDataWithRandomConfiguration(random.presetData,
                                                                 random.addresses)
       IN  /\ addresses' = Some(random.addresses)
           /\ nextId' = random.nextId
           /\ IF random.threw # Absent
              THEN /\ presetData' = Some(random.presetData)
                   /\ Fail(random.threw[1])
              ELSE /\ presetData' = Some(complete.presetData)
                   /\ IF complete.threw # Absent
                      THEN Fail(complete.threw[1])
                      ELSE /\ pc' = "writeAddresses"
                           /\ UNCHANGED result
    /\ UNCHANGED <<reset, presetSource, inflight, configFolder, addressesYml, presetYml, txFiles,
                   txWrites, nodeFolders, nemesisFolders, gatewayFolders, nemgenRuns, optedIn,
                   warned, runs>>
    /\ UNCHANGED nonConfigVars

\* All certificates are there: the rest of generateRandomConfiguration and
\* completePresetDataWithRandomConfiguration run, then addresses.yml is being written.
GenerateRandomConfiguration ==
    /\ pc = "nodeAccounts"
    /\ inflight = {}
    /\ LET count == presetData[1].nodes
           nodes == NodeAccounts(nextId - 2 * count, count)
           random == RandomConfiguration(presetData[1], addresses[1], nodes, nextId)
           complete == completePresetDataWithRandomConfiguration(random.presetData,
                                                                 random.addresses)
       IN  /\ addresses' = Some(random.addresses)
           /\ nextId' = random.nextId
           /\ IF random.threw # Absent
              THEN /\ presetData' = Some(random.presetData)
                   /\ Fail(random.threw[1])
              ELSE /\ presetData' = Some(complete.presetData)
                   /\ IF complete.threw # Absent
                      THEN Fail(complete.threw[1])
                      ELSE /\ pc' = "writeAddresses"
                           /\ UNCHANGED result
    /\ UNCHANGED <<reset, presetSource, inflight, configFolder, addressesYml, presetYml, txFiles,
                   txWrites, nodeFolders, nemesisFolders, gatewayFolders, nemgenRuns, optedIn,
                   warned, runs>>
    /\ UNCHANGED nonConfigVars

\* addresses.yml is written, then generateNodes starts the configuration of every node.
WriteAddresses ==
    /\ pc = "writeAddresses"
    /\ addressesYml' = addresses
    /\ inflight' = {<<"node", i>> : i \in 1..Len(addresses[1].nodes[1])}
    /\ pc' = "generateNodes"
    /\ UNCHANGED <<reset, presetSource, presetData, addresses, configFolder, presetYml, txFiles,
                   txWrites, nodeFolders, nemesisFolders, gatewayFolders, nemgenRuns, nextId,
                   result, optedIn, warned, runs>>
    /\ UNCHANGED nonConfigVars

\* generateNemesis: with a nemesis section the vrf transaction of every node is
\* created and being stored, without one the seed of the preset is being copied.
GenerateNemesis ==
    /\ pc = "generateNodes"
    /\ inflight = {}
    /\ IF presetData[1].hasNemesis
       THEN /\ inflight' = {<<"vrf", i>> : i \in 1..Len(addresses[1].nodes[1])}
            /\ pc' = "vrf"
       ELSE /\ inflight' = {}
            /\ pc' = "seed"
    /\ UNCHANGED <<reset, presetSource, presetData, addresses, configFolder, addressesYml,
                   presetYml, txFiles, txWrites, nodeFolders, nemesisFolders, gatewayFolders,
                   nemgenRuns, nextId, result, optedIn, warned, runs>>
    /\ UNCHANGED nonConfigVars

\* A mutation of the opt-in adjustment: what it throws is swallowed.
AdjustBalancesGoesOn ==
    LET adjusted == OptInBalances(presetData[1])
    IN  /\ presetData' = Some(adjusted.presetData)
        /\ pc' = "nemgen"
        /\ UNCHANGED result

\* The opt-in adjustment and what follows it: a throw ends the run, otherwise the
\* nemesis configuration is being generated.
AdjustBalances ==
    LET adjusted == OptInBalances(presetData[1])
    IN  /\ presetData' = Some(adjusted.presetData)
        /\ IF adjusted.threw # Absent
           THEN Fail(adjusted.threw[1])
           ELSE /\ pc' = "nemgen"
                /\ UNCHANGED result

\* The vrf transactions are stored. In opt-in mode with transactions, the entries
\* with a new hash are being stored and the others are warned about; in opt-in mode
\* without transactions the balances are adjusted at once.
OptIn ==
    /\ pc = "vrf"
    /\ inflight = {}
    /\ IF OptInMode(presetData[1])
       THEN IF presetData[1].transactions # Absent
            THEN LET batch == presetData[1].transactions[1]
                     stored == OptInTransactions(batch,
                                   presetData[1].nemesisGenerationHashSeed[1], 1, <<>>)
                 IN  /\ inflight' = {<<"transaction", i>> : i \in stored}
                     /\ warned' = {batch[i].key : i \in (1..Len(batch)) \ stored}
                     /\ pc' = "optinTx"
                     /\ UNCHANGED <<presetData, result>>
            ELSE /\ AdjustBalances
                 /\ UNCHANGED <<inflight, warned>>
       ELSE /\ pc' = "nemgen"
            /\ UNCHANGED <<presetData, result, inflight, warned>>
    /\ UNCHANGED <<reset, presetSource, addresses, configFolder, addressesYml, presetYml, txFiles,
                   txWrites, nodeFolders, nemesisFolders, gatewayFolders, nemgenRuns, nextId,
                   optedIn, runs>>
    /\ UNCHANGED nonConfigVars

\* Every accepted opt-in transaction is stored: their count is logged and the
\* balances are adjusted.
OptInStored ==
    /\ pc = "optinTx"
    /\ inflight = {}
    /\ optedIn' = Some(Cardinality(OptInTransactions(
                        presetData[1].transactions[1],
                        presetData[1].nemesisGenerationHashSeed[1], 1, <<>>)))
    /\ AdjustBalances
    /\ UNCHANGED <<reset, presetSource, addresses, inflight, configFolder, addressesYml,
                   presetYml, txFiles, txWrites, nodeFolders, nemesisFolders, gatewayFolders,
                   nemgenRuns, nextId, warned, runs>>
    /\ UNCHANGED nonConfigVars

\* The nemesis configuration is generated and NemgenService.run has built the
\* nemesis block; it is being copied to every node.
Nemgen ==
    /\ pc = "nemgen"
    /\ nemgenRuns' = nemgenRuns + 1
    /\ inflight' = {<<"copy", i>> : i \in 1..Len(addresses[1].nodes[1])}
    /\ pc' = "copyNemesis"
    /\ UNCHANGED <<reset, presetSource, presetData, addresses, configFolder, addressesYml,
                   presetYml, txFiles, txWrites, nodeFolders, nemesisFolders, gatewayFolders,
                   nextId, result, optedIn, warned, runs>>
    /\ UNCHANGED nonConfigVars

\* The seed of the preset is copied; it is being copied to every node.
CopySeed ==
    /\ pc = "seed"
    /\ inflight' = {<<"copy", i>> : i \in 1..Len(addresses[1].nodes[1])}
    /\ pc' = "copyNemesis"
    /\ UNCHANGED <<reset, presetSource, presetData, addresses, configFolder, addressesYml,
                   presetYml, txFiles, txWrites, nodeFolders, nemesisFolders, gatewayFolders,
                   nemgenRuns, nextId, result, optedIn, warned, runs>>
    /\ UNCHANGED nonConfigVars

\* generateGateways starts the configuration of every gateway.
GenerateGateways ==
    /\ pc = "copyNemesis"
    /\ inflight = {}
    /\ inflight' = {<<"gateway", i>> : i \in 1..Len(addresses[1].gateways[1])}
    /\ pc' = "gateways"
    /\ UNCHANGED <<reset, presetSource, presetData, addresses, configFolder, addressesYml,
                   presetYml, txFiles, txWrites, nodeFolders, nemesisFolders, gatewayFolders,
                   nemgenRuns, nextId, result, optedIn, warned, runs>>
    /\ UNCHANGED nonConfigVars

\* preset.yml is written and run() returns the preset and the addresses.
WritePreset ==
    /\ pc = "gateways"
    /\ inflight = {}
    /\ presetYml' = presetData
    /\ result' = Some([presetData |-> presetData[1], addresses |-> addresses[1]])
    /\ pc' = "done"
    /\ UNCHANGED <<reset, presetSource, presetData, addresses, inflight, configFolder,
                   addressesYml, txFiles, txWrites, nodeFolders, nemesisFolders, gatewayFolders,
                   nemgenRuns, nextId, optedIn, warned, runs>>
    /\ UNCHANGED nonConfigVars

ConfigNext ==
    \/ ConfigStart
    \/ ConfigMkdir
    \/ CertificateDone
    \/ GenerateRandomConfiguration
    \/ WriteAddresses
    \/ NodeConfigurationDone
    \/ GenerateNemesis
    \/ VrfStored
    \/ OptIn
    \/ TransactionStored
    \/ OptInStored
    \/ Nemgen
    \/ CopySeed
    \/ NemesisCopied
    \/ GenerateGateways
    \/ GatewayDone
    \/ WritePreset

(***************************************************************************)
(* Specifications.                                                          *)
(***************************************************************************)
InitPorts == PortsInit /\ RecoverIdle /\ ComposeIdle /\ ConfigIdle

SpecPorts == InitPorts /\ [][ResolvePorts]_vars

InitRecover == RecoverInit /\ PortsIdle /\ ComposeIdle /\ ConfigIdle

SpecRecover == InitRecover /\ [][RecoverNext]_vars

InitCompose == ComposeInit /\ PortsIdle /\ RecoverIdle /\ ConfigIdle

SpecCompose == InitCompose /\ [][ComposeNext]_vars

InitConfig == ConfigInit /\ PortsIdle /\ RecoverIdle /\ ComposeIdle

SpecConfig == InitConfig /\ [][ConfigNext]_vars

(***************************************************************************)
(* Claims.                                                                  *)
(***************************************************************************)

\* C7: resolvePorts(p, v) is ["p:p"] when v is true or "true", no entry when v is
\* falsy or absent (undefined, false, 0, ""), and ["v:p"] for every other number or
\* string v; 7900 with true gives "7900:7900" and 7900 with 8001 gives "8001:7900".
PortResolution ==
    portPc = "returned" =>
        LET p == ToString(internalPort) IN
        /\ openPort \in {JsBool(TRUE), JsStr("true")} => portResult = <<p \o ":" \o p>>
        /\ openPort \in {JsUndefined, JsBool(FALSE), JsNum(0), JsStr("")} => portResult = <<>>
        /\ (openPort.t = "number" /\ openPort.n # 0) =>
                portResult = <<ToString(openPort.n) \o ":" \o p>>
        /\ (openPort.t = "string" /\ openPort.s \notin {"", "true"}) =>
                portResult = <<openPort.s \o ":" \o p>>
        /\ (internalPort = 7900 /\ openPort = JsBool(TRUE)) => portResult = <<"7900:7900">>
        /\ (internalPort = 7900 /\ openPort = JsNum(8001)) => portResult = <<"8001:7900">>

PortResolutionWitness ==
    /\ portPc = "returned"
    /\ internalPort = 7900
    /\ openPort = JsNum(8001)
    /\ portResult = <<"8001:7900">>

\* C10: in the command of a node service and of its broker the main process starts
\* only after the recovery check; with a lock marker present the recovery binary ran
\* first and exited 0, without one recovery did not run; after a failed recovery the
\* main process is not started.
RecoveryBeforeMain ==
    /\ shPc = "main" =>
        \/ /\ sawLock = "present"
           /\ recoveryExit = <<0>>
           /\ procLog = <<RecoverScript, RecoveryBinary, cmd.second[2]>>
        \/ /\ sawLock = "absent"
           /\ recoveryExit = <<>>
           /\ procLog = <<RecoverScript, cmd.second[2]>>
    /\ (recoveryExit # <<>> /\ recoveryExit # <<0>>) =>
        /\ shPc # "main"
        /\ \A i \in 1..Len(procLog) : procLog[i] \notin {StartServerScript, StartBrokerScript}

RecoveryBeforeMainWitness ==
    /\ shPc = "main"
    /\ sawLock = "present"
    /\ restarts > 0
    /\ procLog = <<RecoverScript, RecoveryBinary, StartServerScript>>

\* The service names an entry of the preset writes.
KeysOf(group, i) ==
    LET n == Entries(cPreset, group)[i]
    IN  {n.name} \cup (IF group = "nodes" /\ n.brokerHost # Absent THEN {n.brokerHost[1]} ELSE {})

EntryIds == {<<Groups[g], i>> : g \in 1..3, i \in 1..(1 + MaxNodes + MaxGateways)}
                \cap UNION {{<<Groups[g], i>> : i \in DOMAIN Entries(cPreset, Groups[g])} : g \in 1..3}

\* No other entry writes a service name of this entry, and a node's name is not its
\* own broker host.
Unshared(group, i) ==
    /\ \A e \in EntryIds \ {<<group, i>>} : KeysOf(e[1], e[2]) \cap KeysOf(group, i) = {}
    /\ LET n == Entries(cPreset, group)[i]
       IN  (group = "nodes" /\ n.brokerHost # Absent) => n.brokerHost[1] # n.name

\* The services of the written document that node entry n accounts for.
ServicesOfNode(n) ==
    {k \in DOMAIN services :
        \/ k = n.name /\ services[k].command = NodeCommand(n.name)
        \/ n.brokerHost # Absent /\ k = n.brokerHost[1]
            /\ services[k].command = BrokerCommand(n.brokerHost[1])}

TwoServices(n) ==
    /\ n.name \in DOMAIN services
    /\ n.brokerHost[1] \in DOMAIN services
    /\ Cardinality(ServicesOfNode(n)) = 2
    /\ services[n.name].depends_on = Some(<<n.databaseHost[1], n.brokerHost[1]>>)

\* C5: with a topology document at the target and no reset, run() returns the
\* document's location and changes nothing (no directory, Dockerfile, image, tag,
\* push or write) and does nothing afterwards; with reset the existing document is
\* deleted first and the compilation goes on, and the document a run writes is the
\* one it computed.
ComposeShortCircuit ==
    [][/\ (cPc = "start" /\ ~cParams.reset /\ composeYml # Absent) =>
            /\ cPc' = "reused"
            /\ cResult' = Some(DockerFilePath)
            /\ UNCHANGED <<composeYml, dirs, dockerfiles, localImages, taggedImages,
                           registry, services>>
       /\ cPc = "reused" => UNCHANGED composeVars
       /\ (cPc = "start" /\ cParams.reset) =>
            /\ composeYml' = Absent
            /\ DockerDir \notin dirs'
            /\ cPc' = "prepare"
       /\ cPc' = "done" => composeYml' = Some(DockerCompose(services'))
      ]_vars

ComposeShortCircuitWitness ==
    /\ cPc = "reused"
    /\ ~cParams.reset
    /\ composeYml = Some(ExistingDocument)
    /\ cResult = Some(DockerFilePath)
    /\ cPreset.nodes # <<>>

\* C6 as stated: every node entry with a database host and a broker host has exactly
\* two services in the written document, one under its name and one under its broker
\* host, and the node service depends on [databaseHost, brokerHost].
NodeWithBothHostsAlways ==
    cPc = "done" =>
        \A i \in DOMAIN cPreset.nodes :
            LET n == cPreset.nodes[i]
            IN  (n.databaseHost # Absent /\ n.brokerHost # Absent) => TwoServices(n)

\* C6 as amended: the same for every such node entry whose name and broker host are
\* written by no other entry and differ from each other.
NodeWithBothHosts ==
    cPc = "done" =>
        \A i \in DOMAIN cPreset.nodes :
            LET n == cPreset.nodes[i]
            IN  (n.databaseHost # Absent /\ n.brokerHost # Absent /\ Unshared("nodes", i))
                    => TwoServices(n)

NodeWithBothHostsWitness ==
    /\ cPc = "done"
    /\ cParams.aws
    /\ Len(cPreset.nodes) = 2
    /\ cPreset.nodes[2].databaseHost # Absent
    /\ cPreset.nodes[2].brokerHost # Absent
    /\ Unshared("nodes", 2)
    /\ TwoServices(cPreset.nodes[2])
    /\ ~Unshared("nodes", 1)

\* C8: in registry-push mode every service with N volumes has N ADD directives in its
\* Dockerfile, its image in the written document is the reference that was tagged and
\* pushed, <registry>/<repository>:<serviceName>, and it has no volumes; without
\* registry push it keeps the original image and its N volumes.
RegistryPushImage ==
    cPc = "done" =>
        \A e \in EntryIds :
            LET n == Entries(cPreset, e[1])[e[2]]
                volumes == GroupVolumes(e[1], n)
            IN  Unshared(e[1], e[2]) =>
                    IF cParams.aws
                    THEN /\ Len(dockerfiles[n.name].adds) = Len(volumes)
                         /\ services[n.name].image = AbsoluteImageUrl(n.name)
                         /\ services[n.name].image \in taggedImages \cap registry
                         /\ services[n.name].volumes = Absent
                    ELSE /\ services[n.name].image = GroupImage(e[1])
                         /\ services[n.name].volumes = Some(volumes)


(***************************************************************************)
(* ConfigService: distributions.                                             *)
(***************************************************************************)
SourceMosaics == IF presetSource.mosaics = Absent THEN <<>> ELSE presetSource.mosaics[1]

Beneficiaries(m) == m.accounts + presetSource.nodes

\* What the amounts of mosaic m must add up to for the validation to pass it.
Supplied(m) ==
    IF m.currencyDistributions # Absent
    THEN Sum(Amounts(m.currencyDistributions[1]))
    ELSE IF Beneficiaries(m) = 0 THEN 0 ELSE m.supply

\* The mosaics before mosaic i all pass the validation.
ReachedBy(i) == \A j \in 1..(i - 1) : Supplied(SourceMosaics[j]) = SourceMosaics[j].supply

\* The mosaic loop of the current run is over and the opt-in adjustment is not made:
\* the run is between the loop and the adjustment, or the loop threw (the addresses
\* get their mosaics only after the loop).
AfterMosaicLoop ==
    /\ presetData # Absent
    /\ presetData[1].hasNemesis
    /\ presetData[1].mosaics # Absent
    /\ \/ pc \in {"writeAddresses", "generateNodes", "vrf", "optinTx"}
       \/ pc = "failed" /\ addresses # Absent /\ addresses[1].mosaics = Absent

Generated(i) == presetData[1].mosaics[1][i].currencyDistributions

ExplicitDistributionKept ==
    AfterMosaicLoop =>
        \A i \in 1..Len(SourceMosaics) :
            LET m == SourceMosaics[i]
            IN  m.currencyDistributions # Absent =>
                    /\ Generated(i) = m.currencyDistributions
                    /\ (ReachedBy(i) /\ Supplied(m) # m.supply) =>
                            /\ pc = "failed"
                            /\ result = Some(Thrown(
                                    "Invalid nemgen total supplied value, expected "
                                    \o ToString(m.supply) \o " but total is "
                                    \o ToString(Supplied(m))))
                    /\ pc # "failed" => Supplied(m) = m.supply

\* A supply of 3 with an explicit distribution of 1 and 2 passes; the second mosaic,
\* a supply of 2 with an explicit distribution of 1, is refused.
ExplicitDistributionKeptWitness ==
    /\ pc = "failed"
    /\ Len(SourceMosaics) = 2
    /\ SourceMosaics[1].supply = 3
    /\ SourceMosaics[1].currencyDistributions # Absent
    /\ Amounts(Generated(1)[1]) = <<1, 2>>
    /\ Amounts(Generated(2)[1]) = <<1>>
    /\ result = Some(Thrown("Invalid nemgen total supplied value, expected 2 but total is 1"))

(***************************************************************************)
(* ConfigService: opt-in balances and transactions, repeated runs.           *)
(***************************************************************************)
\* The next step of run() is the opt-in adjustment of the currency mosaic.
AtAdjustment ==
    /\ inflight = {}
    /\ \/ pc = "optinTx"
       \/ pc = "vrf" /\ OptInMode(presetData[1]) /\ presetData[1].transactions = Absent

\* The currency mosaic has a first entry to take the opted in total from.
HasResidual ==
    /\ presetData[1].mosaics[1] # <<>>
    /\ presetData[1].mosaics[1][1].currencyDistributions[1] # <<>>

\* C2: opt-in balances that add up to T are appended to the distribution of the
\* primary mosaic and the first (residual) entry becomes its original amount minus
\* T, the sum of the distribution staying the supply; when that leaves the residual
\* entry without a positive balance the run fails and the genesis is not generated.
OptInBalanceDebit ==
    [][(AtAdjustment /\ HasResidual) =>
        LET currencyMosaic == presetData[1].mosaics[1][1]
            distribution == currencyMosaic.currencyDistributions[1]
            original == distribution[1].amount
            balances == IF presetData[1].balances = Absent THEN <<>> ELSE presetData[1].balances[1]
            T == Sum(Amounts(balances))
            after == presetData'[1].mosaics[1][1].currencyDistributions[1]
        IN  IF T < original
            THEN /\ pc' = "nemgen"
                 /\ result' = Absent
                 /\ Len(after) = Len(distribution) + Len(balances)
                 /\ after[1] = [address |-> distribution[1].address, amount |-> original - T]
                 /\ \A k \in 2..Len(distribution) : after[k] = distribution[k]
                 /\ \A k \in 1..Len(balances) : after[Len(distribution) + k] = balances[k]
                 /\ Sum(Amounts(after)) = currencyMosaic.supply
            ELSE /\ pc' = "failed"
                 /\ result' = Some(NglTooLow(original, currencyMosaic.supply))
                 /\ nemgenRuns' = nemgenRuns]_vars

\* Two balances of 1 and 2 are taken from a residual entry of 5.
OptInBalanceDebitWitness ==
    /\ pc = "nemgen"
    /\ presetSource.balances = Some(<<[address |-> 901, amount |-> 1], [address |-> 902, amount |-> 2]>>)
    /\ SourceMosaics = <<Mosaic(1, 5, 1, Absent)>>
    /\ presetSource.nodes = 0
    /\ Amounts(Generated(1)[1]) = <<2, 1, 2>>

TransactionBatch == presetSource.transactions[1]

HashOf(i) == createTransactionHash(TransactionBatch[i].payload, presetData[1].nemesisGenerationHashSeed[1])

\* C3: of the opt-in transactions, one whose hash equals the hash of an earlier one
\* is not stored and is warned about, every other one is stored under its key
\* exactly once, and the logged count is the number of distinct hashes.
OptInDeduplication ==
    /\ \A n \in DOMAIN txWrites : txWrites[n] = 1
    /\ optedIn # Absent =>
        /\ \A i \in 1..Len(TransactionBatch) :
            IF \E j \in 1..(i - 1) : HashOf(j) = HashOf(i)
            THEN /\ TransactionBatch[i].key \notin DOMAIN txFiles
                 /\ TransactionBatch[i].key \in warned
            ELSE /\ TransactionBatch[i].key \in DOMAIN txFiles
                 /\ txFiles[TransactionBatch[i].key] = TransactionBatch[i].payload
                 /\ TransactionBatch[i].key \notin warned
        /\ optedIn[1] = Cardinality({HashOf(i) : i \in 1..Len(TransactionBatch)})

\* Three transactions of which the second has the hash of the first, under another
\* payload: two are stored, one is warned about.
OptInDeduplicationWitness ==
    /\ pc = "done"
    /\ optedIn = Some(2)
    /\ Len(TransactionBatch) = 3
    /\ TransactionBatch[1].payload # TransactionBatch[2].payload
    /\ warned = {TransactionKey(2)}
    /\ TransactionKey(3) \in DOMAIN txFiles

\* run() is started without reset on a target whose config folder exists.
RestartWithoutReset ==
    /\ pc \in {"done", "reused", "failed"}
    /\ configFolder
    /\ runs' = runs + 1
    /\ ~reset'

\* C4: a run without reset that follows a run on the same target generates nothing: no
\* identity is generated and nothing is written to the addresses, the node
\* configurations, the nemesis or the preset; after a run that returned, it returns
\* the addresses that run persisted.
SecondRunReuses ==
    [][RestartWithoutReset =>
        /\ pc' \in {"reused", "failed"}
        /\ nextId' = nextId
        /\ UNCHANGED <<configFolder, addressesYml, presetYml, txFiles, txWrites, nodeFolders,
                       nemesisFolders, gatewayFolders, nemgenRuns>>
        /\ pc \in {"done", "reused"} =>
            /\ pc' = "reused"
            /\ result'[1].addresses = addressesYml[1]
            /\ result'[1].addresses = result[1].addresses
            /\ result'[1].presetData = presetYml[1]]_vars

\* The second run returned the stored configuration of two nodes.
SecondRunReusesWitness ==
    /\ pc = "reused"
    /\ runs = 2
    /\ ~reset
    /\ presetSource.nodes = 2
    /\ result = Some([presetData |-> presetYml[1], addresses |-> addressesYml[1]])
    /\ Len(result[1].addresses.nodes[1]) = 2

(***************************************************************************)
(* ComposeService: the broker service of a node.                             *)
(***************************************************************************)
\* The service under the broker host of node entry n has the image and the volumes
\* of the service under the node's name, the broker command, and publishes nothing
\* or a port onto 7902.
BrokerShares(n) ==
    /\ n.name \in DOMAIN services
    /\ n.brokerHost[1] \in DOMAIN services
    /\ LET broker == services[n.brokerHost[1]]
           node == services[n.name]
       IN  /\ broker.image = node.image
           /\ broker.volumes = node.volumes
           /\ broker.command = BrokerCommand(n.brokerHost[1])
           /\ broker.command # node.command
           /\ broker.ports = IF n.openBrokerPort = JsStr("true") THEN <<"7902:7902">> ELSE <<>>

\* C11 as stated: for every node entry with a broker host, the broker service shares
\* the image and the volumes of the node service, has its own command and port 7902,
\* and depends on the node service.
BrokerDependsOnNode ==
    cPc = "done" =>
        \A i \in DOMAIN cPreset.nodes :
            LET n == cPreset.nodes[i]
            IN  n.brokerHost # Absent =>
                    /\ BrokerShares(n)
                    /\ services[n.brokerHost[1]].depends_on # Absent
                    /\ \E k \in DOMAIN services[n.brokerHost[1]].depends_on[1] :
                            services[n.brokerHost[1]].depends_on[1][k] = n.name

\* C11 as amended: for every node entry with a broker host whose service names are
\* written by no other entry, the broker service shares the image and the volumes of
\* the node service, has its own command and port 7902 and no dependency; the node
\* service depends on the broker service, as the last of its dependencies.
NodeDependsOnBroker ==
    cPc = "done" =>
        \A i \in DOMAIN cPreset.nodes :
            LET n == cPreset.nodes[i]
            IN  (n.brokerHost # Absent /\ Unshared("nodes", i)) =>
                    /\ BrokerShares(n)
                    /\ services[n.brokerHost[1]].depends_on = Absent
                    /\ services[n.name].depends_on # Absent
                    /\ LET dependsOn == services[n.name].depends_on[1]
                       IN  /\ dependsOn # <<>>
                           /\ dependsOn[Len(dependsOn)] = n.brokerHost[1]

\* Without registry push, the broker of the first node has the three volumes of the
\* node and publishes 7902.
NodeDependsOnBrokerWitness ==
    /\ cPc = "done"
    /\ ~cParams.aws
    /\ cPreset.nodes # <<>>
    /\ cPreset.nodes[1].brokerHost = Some(BrokerName(1))
    /\ Unshared("nodes", 1)
    /\ services[BrokerName(1)].volumes = Some(NodeVolumes(cPreset.nodes[1]))
    /\ services[BrokerName(1)].ports = <<"7902:7902">>
    /\ services[NodeName(1)].depends_on = Some(<<BrokerName(1)>>)

(***************************************************************************)
(* ConfigService: opt-in without a residual entry.                           *)
(***************************************************************************)
\* C12: in opt-in mode, when the currency mosaic has no first distribution entry (or
\* there is no currency mosaic), the adjustment throws: the run ends there, the
\* nemesis configuration is not generated and NemgenService.run is not invoked, and
\* a run that has thrown takes no further step.
OptInWithoutResidualFails ==
    [][/\ (AtAdjustment /\ ~HasResidual) =>
            /\ pc' = "failed"
            /\ result' \in
                {Some(Thrown("TypeError: Cannot read property 'amount' of undefined")),
                 Some(Thrown("TypeError: Cannot read property 'currencyDistributions' of undefined"))}
            /\ nemgenRuns' = nemgenRuns
            /\ UNCHANGED <<nemesisFolders, presetYml, inflight>>
       /\ pc = "failed" => (runs' = runs + 1 /\ nemgenRuns' = nemgenRuns)
      ]_vars

\* Opt-in balances and transactions for a currency mosaic of supply 0 without any
\* beneficiary: the transactions are stored, then the adjustment throws.
OptInWithoutResidualFailsWitness ==
    /\ pc = "failed"
    /\ runs = 1
    /\ presetSource.balances # Absent
    /\ presetSource.transactions # Absent
    /\ SourceMosaics = <<Mosaic(1, 0, 0, Absent)>>
    /\ presetSource.nodes = 0
    /\ Generated(1) = Some(<<>>)
    /\ result = Some(Thrown("TypeError: Cannot read property 'amount' of undefined"))
    /\ TransactionKey(1) \in DOMAIN txFiles
    /\ nemgenRuns = 0

(***************************************************************************)
(* ComposeService: the document and the concurrent branches.                 *)
(***************************************************************************)
\* Every entry of the three groups has added its services and, with registry push,
\* has pushed its image; no branch is suspended.
AllBranchesCompleted ==
    /\ cBranch = <<>>
    /\ \A e \in EntryIds :
        /\ KeysOf(e[1], e[2]) \subseteq DOMAIN services
        /\ cParams.aws =>
            AbsoluteImageUrl(Entries(cPreset, e[1])[e[2]].name) \in registry

\* C13: the topology document is written only when every branch of the three groups
\* has completed and added its services; when a branch fails, run() throws the error
\* of the first branch that failed, and from then on the document is not written.
DocumentAfterAllBranches ==
    [][/\ (composeYml' # composeYml /\ composeYml' # Absent) =>
            /\ cPc = "write"
            /\ AllBranchesCompleted
            /\ composeYml' = Some(DockerCompose(services))
       /\ (cPc # "failed" /\ cPc' = "failed") =>
            /\ composeYml' = Absent
            /\ \E i \in DOMAIN cBranch :
                /\ cBranch[i] # "failed"
                /\ cBranch'[i] = "failed"
                /\ cResult' = Some([error |-> cBranch[i], group |-> cPc,
                                    service |-> Entries(cPreset, cPc)[i].name])
       /\ cPc = "failed" => UNCHANGED <<cPc, cResult, composeYml>>
      ]_vars

\* The push of the second node failed after the first node had added its services:
\* no document.
DocumentAfterAllBranchesWitness ==
    /\ cPc = "failed"
    /\ cBranch = <<"done", "failed">>
    /\ cResult = Some([error |-> "push", group |-> "nodes", service |-> NodeName(2)])
    /\ NodeName(1) \in DOMAIN services
    /\ NodeName(2) \notin DOMAIN services
    /\ composeYml = Absent

(***************************************************************************)
(* ConfigService: the preset and the concurrent branches.                    *)
(***************************************************************************)
\* C14: the preset in memory changes only in a sequential step of run(): when it is
\* loaded, in the backfill that follows the certificates of the nodes, and in the
\* opt-in adjustment; no branch of a fan-out (certificates, node configurations, vrf
\* transactions, stored transactions, nemesis copies, gateway configurations) is in
\* flight before or after such a step.
PresetMutatedSequentially ==
    [][presetData' # presetData =>
        /\ inflight = {}
        /\ inflight' = {}
        /\ \/ pc \in {"idle", "done", "reused", "failed"} /\ runs' = runs + 1
           \/ pc = "nodeAccounts"
           \/ AtAdjustment
      ]_vars

\* The preset of two nodes after the backfill and the opt-in adjustment: the
\* certificates, the node configurations and the vrf transactions are through.
PresetMutatedSequentiallyWitness ==
    /\ pc = "nemgen"
    /\ inflight = {}
    /\ presetSource.nodes = 2
    /\ presetSource.balances # Absent /\ presetSource.balances # Some(<<>>)
    /\ nodeFolders = {1, 2}
    /\ {VrfFileName(NodeName(1)), VrfFileName(NodeName(2))} \subseteq DOMAIN txFiles
    /\ presetData[1].nemesisSignerPrivateKey # Absent
    /\ Len(Generated(1)[1]) > Beneficiaries(SourceMosaics[1])

(***************************************************************************)
(* ComposeService: static addresses and the service graph.                   *)
(***************************************************************************)
\* The host addresses of the subnet 172.20.0.0/24.
SubnetAddresses == {"172.20.0." \o ToString(h) : h \in 1..254}

\* C15: in the written document no two services have the same static address, and
\* every static address lies in the subnet.
DistinctStaticAddresses ==
    cPc = "done" =>
        /\ Subnet = "172.20.0.0/24"
        /\ \A k \in DOMAIN services :
            services[k].networks # Absent =>
                services[k].networks[1].ipv4_address \in SubnetAddresses
        /\ \A k1, k2 \in DOMAIN services :
            (k1 # k2 /\ services[k1].networks # Absent /\ services[k2].networks # Absent) =>
                services[k1].networks[1].ipv4_address # services[k2].networks[1].ipv4_address

\* Every service name of the preset is written by one entry only.
DistinctNames == \A e \in EntryIds : Unshared(e[1], e[2])

\* The service graph of the preset, its entries taken in the order of the lists.
GraphInOrder ==
    AssignInOrder("gateways",
        AssignInOrder("nodes",
            AssignInOrder("databases", NoServices, cPreset.databases, cParams.aws, cUser),
            cPreset.nodes, cParams.aws, cUser),
        cPreset.gateways, cParams.aws, cUser)

\* C16: when the names of the preset are pairwise distinct, a service once written is
\* not written again, and whatever the order in which the branches resume, the
\* graph of the document is the one of the entries taken in order: one service per
\* database, node, broker host and gateway.
GraphIndependentOfInterleaving ==
    [][DistinctNames =>
        /\ \A k \in DOMAIN services \cap DOMAIN services' : services'[k] = services[k]
        /\ DOMAIN services \subseteq DOMAIN services'
        /\ cPc' = "done" =>
            /\ services' = GraphInOrder
            /\ composeYml' = Some(DockerCompose(GraphInOrder))
            /\ Cardinality(DOMAIN services') =
                    Len(cPreset.databases) + Len(cPreset.nodes) + Len(cPreset.gateways)
                    + Cardinality({i \in DOMAIN cPreset.nodes : cPreset.nodes[i].brokerHost # Absent})
      ]_vars

\* With registry push: one database, two nodes with a broker each and two gateways
\* make seven services.
GraphIndependentOfInterleavingWitness ==
    /\ cPc = "done"
    /\ cParams.aws
    /\ DistinctNames
    /\ Len(cPreset.databases) = 1
    /\ Len(cPreset.nodes) = 2
    /\ Len(cPreset.gateways) = 2
    /\ \A i \in 1..2 : cPreset.nodes[i].brokerHost # Absent
    /\ Cardinality(DOMAIN services) = 7
    /\ services = GraphInOrder

====
